---- MODULE Spec2Model ----
(***************************************************************************)
(* Model of pyCLARA's lib/initialization.py and lib/spatial_functions.py.  *)
(*                                                                         *)
(* Three entry points are modelled, each with its own specification:       *)
(*   SpecInit    initialization()                 (initialization.py)      *)
(*   SpecRegion  calc_region()                    (spatial_functions.py)   *)
(*   SpecRaster  array2raster(), array_to_raster() (spatial_functions.py)  *)
(*                                                                         *)
(* Coordinates and pixel sizes are integers.  Arrays are records           *)
(* [rows, cols, v] with v[i][j] indexed from 0 like numpy; sequences that  *)
(* model Python lists and tuples are indexed from 1, so Crd[1] is          *)
(* Python's Crd[0].                                                        *)
(***************************************************************************)
EXTENDS Integers, Sequences, FiniteSets, TLC

VARIABLES
    \* ---- the machine initialization() runs on
    disk,        \* set of paths that exist as regular files (os.path.isfile / exists)
    meta,        \* what gdal.Open reads from each raster on disk
    \* ---- initialization()
    inputs,      \* paths["inputs"]
    pc,          \* position in initialization()
    idx,         \* index of input_file in the running for loop (from 1)
    stdout,      \* what print() has written, in order
    opened,      \* the paths handed to gdal.Open, in order
    old,         \* Crd_all_old, x_size_old, y_size_old (<<>> while unbound)
    param,       \* the keys initialization() has set in param
    written,     \* the files initialization() has created, in order
    result,      \* what initialization() returned (<<>> before it returns)
    \* ---- calc_region()
    region, Crd_reg, res_desired, GeoRef,      \* its arguments
    edgeRule,    \* the rasterizer's verdict on a centre exactly on a polygon edge
    pcRegion,    \* position in calc_region()
    A_region, features, profile,               \* its locals
    \* ---- array2raster() / array_to_raster()
    call,        \* the function called and its arguments
    pcRaster,    \* position in the writer
    outRaster    \* the GeoTIFF dataset being written

initVars   == <<disk, meta, inputs, pc, idx, stdout, opened, old, param,
                written, result>>
regionVars == <<region, Crd_reg, res_desired, GeoRef, edgeRule, pcRegion,
                A_region, features, profile>>
rasterVars == <<call, pcRaster, outRaster>>
vars       == <<initVars, regionVars, rasterVars>>

-----------------------------------------------------------------------------
(* Bounds of the model. *)

MaxInputs == 3      \* longest paths["inputs"] list
MaxCoord  == 5      \* largest coordinate of a region bounding box
MaxRows   == 3      \* most rows of an array handed to a raster writer

-----------------------------------------------------------------------------
(* Numeric helpers: Python's abs()/math.fabs() and int() of a quotient. *)

Abs(x) == IF x < 0 THEN -x ELSE x

\* int(a / b): float division truncated toward zero.
IntDiv(a, b) ==
    IF (a >= 0) = (b > 0) THEN Abs(a) \div Abs(b) ELSE -(Abs(a) \div Abs(b))

\* str.endswith on strings held as sequences of characters.
EndsWith(s, suffix) ==
    /\ Len(s) >= Len(suffix)
    /\ SubSeq(s, Len(s) - Len(suffix) + 1, Len(s)) = suffix

Suffix_tif == <<".", "t", "i", "f">>

-----------------------------------------------------------------------------
(* calc_geotiff(Crd_all, res_desired) *)

\* Mutant of calc_geotiff: the origin pairs as [north, west] and [south, west].
calc_geotiff_swapped(Crd, res) ==
    [RasterOrigin     |-> <<Crd[1], Crd[4]>>,
     RasterOrigin_alt |-> <<Crd[3], Crd[4]>>,
     pixelWidth       |-> res[2],
     pixelHeight      |-> -res[1]]

calc_geotiff(Crd, res) ==
    [RasterOrigin     |-> <<Crd[4], Crd[1]>>,
     RasterOrigin_alt |-> <<Crd[4], Crd[3]>>,
     pixelWidth       |-> res[2],
     pixelHeight      |-> -res[1]]

-----------------------------------------------------------------------------
(* initialization(): its inputs. *)

a_tif == <<"a", ".", "t", "i", "f">>      \* a raster on disk
b_tif == <<"b", ".", "t", "i", "f">>      \* a raster on disk
c_TIF == <<"c", ".", "T", "I", "F">>      \* on disk, upper-case suffix
d_tif == <<"d", ".", "t", "i", "f">>      \* not on disk
e_txt == <<"e", ".", "t", "x", "t">>      \* not on disk, not a .tif name
input_stats == <<"s", ".", "c", "s", "v">>  \* paths["input_stats"]

Paths == {a_tif, b_tif, c_TIF, d_tif, e_txt}

\* A raster's metadata: GetGeoTransform() and the raster size.
Meta(ulx, xs, uly, ys, X, Y) ==
    [gt |-> <<ulx, xs, 0, uly, 0, ys>>, RasterXSize |-> X, RasterYSize |-> Y]

\* Rasters of the first kind: every sign and ratio of the two pixel sizes.
BaseMetas == { Meta(0, xs, 8, ys, 4, 4) : xs \in {1, 2}, ys \in {-1, -2, 2} }

\* A second raster: the same as m, or m changed in one respect.
Variants(m) ==
    LET ulx == m.gt[1]  xs == m.gt[2]  uly == m.gt[4]  ys == m.gt[6]
        X == m.RasterXSize  Y == m.RasterYSize
    IN { m,
         Meta(ulx - xs, xs, uly, ys, X + 1, Y),     \* west only
         Meta(ulx, xs, uly - ys, ys, X, Y + 1),     \* north only
         Meta(ulx, xs, uly, ys, X + 1, Y),          \* east only
         Meta(ulx, xs, uly, ys, X, Y + 1),          \* south only
         Meta(ulx, 3 - xs, uly, ys, (xs * X) \div (3 - xs), Y),  \* x_size only
         Meta(ulx, xs, uly, 2 * ys, X, Y \div 2) }  \* y_size only

\* The bounding box initialization() computes from a dataset: N, E, S, W.
BoxOf(m) ==
    <<m.gt[4],
      m.gt[1] + m.gt[2] * m.RasterXSize,
      m.gt[4] + m.gt[6] * m.RasterYSize,
      m.gt[1]>>

InputLists == UNION { [1..n -> Paths] : n \in 0..MaxInputs }

NoParam == <<>>

InitInit ==
    \* calc_region() is not running
    /\ Crd_reg = <<>> /\ region = <<>> /\ res_desired = <<>> /\ GeoRef = <<>>
    /\ edgeRule = FALSE /\ pcRegion = "idle"
    /\ A_region = <<>> /\ features = <<>> /\ profile = <<>>
    \* no raster writer is running
    /\ call = <<>> /\ pcRaster = "idle" /\ outRaster = <<>>
    /\ \E withStats \in BOOLEAN :
          disk = {a_tif, b_tif, c_TIF} \cup (IF withStats THEN {input_stats} ELSE {})
    /\ \E ma \in BaseMetas : \E mb \in Variants(ma) :
          meta = [p \in {a_tif, b_tif} |-> IF p = a_tif THEN ma ELSE mb]
    /\ inputs \in InputLists
    /\ pc = "start"
    /\ idx = 0
    /\ stdout = <<>>
    /\ opened = <<>>
    /\ old = <<>>
    /\ param = NoParam
    /\ written = <<>>
    /\ result = <<>>


-----------------------------------------------------------------------------
(* initialization(): its steps. *)

\* Mutant of Exit: the input-stats table is created before the process ends.
Exit_writesStats(msg) ==
    /\ stdout' = Append(stdout, msg)
    /\ pc' = "exited"
    /\ disk' = disk \cup {input_stats}
    /\ written' = Append(written, input_stats)
    /\ UNCHANGED result

\* sys.exit(0) after print(msg)
Exit(msg) ==
    /\ stdout' = Append(stdout, msg)
    /\ pc' = "exited"
    /\ UNCHANGED <<disk, written, result>>

\* lines 14-19: configuration(), then the empty-list check
\* (timecheck() of lib.util only logs the time; its output is not in stdout)
CheckInputs ==
    /\ UNCHANGED <<regionVars, rasterVars>>
    /\ pc = "start"
    /\ IF Len(inputs) = 0
       THEN /\ Exit(<<"No input file given!">>)
            /\ UNCHANGED idx
       ELSE /\ pc' = "check"
            /\ idx' = 1
            /\ UNCHANGED <<stdout, disk, written, result>>
    /\ UNCHANGED <<meta, inputs, opened, old, param>>

\* Mutant of CheckFile: the suffix is tested before the existence.
CheckFile_suffixFirst ==
    /\ UNCHANGED <<regionVars, rasterVars>>
    /\ pc = "check"
    /\ LET input_file == inputs[idx] IN
         IF ~EndsWith(input_file, Suffix_tif)
         THEN /\ Exit(<<"File is not raster: ", input_file>>)
              /\ UNCHANGED idx
         ELSE IF input_file \notin disk
         THEN /\ Exit(<<"File does not exist: ", input_file>>)
              /\ UNCHANGED idx
         ELSE /\ UNCHANGED <<stdout, disk, written, result>>
              /\ IF idx < Len(inputs)
                 THEN /\ idx' = idx + 1 /\ UNCHANGED pc
                 ELSE /\ idx' = 1 /\ pc' = "scan"
    /\ UNCHANGED <<meta, inputs, opened, old, param>>

\* lines 20-26: one pass of the first for loop
CheckFile ==
    /\ UNCHANGED <<regionVars, rasterVars>>
    /\ pc = "check"
    /\ LET input_file == inputs[idx] IN
         IF input_file \notin disk
         THEN /\ Exit(<<"File does not exist: ", input_file>>)
              /\ UNCHANGED idx
         ELSE IF ~EndsWith(input_file, Suffix_tif)
         THEN /\ Exit(<<"File is not raster: ", input_file>>)
              /\ UNCHANGED idx
         ELSE /\ UNCHANGED <<stdout, disk, written, result>>
              /\ IF idx < Len(inputs)
                 THEN /\ idx' = idx + 1 /\ UNCHANGED pc
                 ELSE /\ idx' = 1 /\ pc' = "scan"
    /\ UNCHANGED <<meta, inputs, opened, old, param>>

\* line 41
ResDesiredOf(x_size, y_size) == <<Abs(x_size), Abs(y_size)>>

\* Mutant of Mismatch: y_size is not compared.
Mismatch_ignoresYSize(o, Crd_all, x_size, y_size) ==
    \/ \E k \in 1..4 : o.Crd_all[k] # Crd_all[k]
    \/ o.x_size # x_size

\* line 37
Mismatch(o, Crd_all, x_size, y_size) ==
    \/ \E k \in 1..4 : o.Crd_all[k] # Crd_all[k]
    \/ o.x_size # x_size
    \/ o.y_size # y_size

\* lines 29-42: one pass of the second for loop
ScanFile ==
    /\ UNCHANGED <<regionVars, rasterVars>>
    /\ pc = "scan"
    /\ LET input_file == inputs[idx]
           dataset    == meta[input_file]
           x_size     == dataset.gt[2]
           y_size     == dataset.gt[6]
           Crd_all    == BoxOf(dataset)
           isFirst    == input_file = inputs[1]
           res        == ResDesiredOf(x_size, y_size)
       IN /\ opened' = Append(opened, input_file)
          /\ IF ~isFirst /\ Mismatch(old, Crd_all, x_size, y_size)
             THEN /\ Exit(<<"Not the same scope / resolution!">>)
                  /\ UNCHANGED <<idx, old, param>>
             ELSE /\ old' = IF isFirst
                            THEN [Crd_all |-> Crd_all, x_size |-> x_size, y_size |-> y_size]
                            ELSE old
                  /\ param' = [Crd_all     |-> Crd_all,
                               res_desired |-> res,
                               GeoRef      |-> calc_geotiff(Crd_all, res)]
                  /\ UNCHANGED <<stdout, disk, written, result>>
                  /\ IF idx < Len(inputs)
                     THEN /\ idx' = idx + 1 /\ UNCHANGED pc
                     ELSE /\ idx' = 0 /\ pc' = "stats"
    /\ UNCHANGED <<meta, inputs>>

\* lines 45-53: the input-stats table, then return paths, param
WriteStats ==
    /\ UNCHANGED <<regionVars, rasterVars>>
    /\ pc = "stats"
    /\ IF input_stats \notin disk
       THEN /\ disk' = disk \cup {input_stats}
            /\ written' = Append(written, input_stats)
       ELSE UNCHANGED <<disk, written>>
    /\ result' = <<[inputs |-> inputs, input_stats |-> input_stats], param>>
    /\ pc' = "returned"
    /\ UNCHANGED <<meta, inputs, idx, stdout, opened, old, param>>

NextInit ==
    \/ CheckInputs
    \/ CheckFile
    \/ ScanFile
    \/ WriteStats

-----------------------------------------------------------------------------
(* Arrays (numpy), affine transforms (rasterio) and polygons (shapely). *)

\* np.ones((M, N))
Ones(M, N) ==
    [rows |-> M, cols |-> N, v |-> [i \in 0..(M - 1) |-> [j \in 0..(N - 1) |-> 1]]]

\* np.flipud(array): the rows in reverse order
Flipud(array) ==
    [array EXCEPT !.v = [i \in 0..(array.rows - 1) |-> array.v[array.rows - 1 - i]]]

\* rasterio.transform.from_origin(west, north, xsize, ysize)
\*   = Affine.translation(west, north) * Affine.scale(xsize, -ysize):
\*   x = a*col + c, y = e*row + f.
from_origin(west, north, xsize, ysize) ==
    [a |-> xsize, b |-> 0, c |-> west, d |-> 0, e |-> -ysize, f |-> north]

\* Twice the coordinates of the centre of pixel (row, col) under transform t.
CentreX2(t, col) == 2 * t.c + (2 * col + 1) * t.a
CentreY2(t, row) == 2 * t.f + (2 * row + 1) * t.e

\* An axis-parallel rectangular polygon.
Rect(x1, x2, y1, y2) == [x1 |-> x1, x2 |-> x2, y1 |-> y1, y2 |-> y2]

StrictlyInside(r, x2, y2) ==
    /\ 2 * r.x1 < x2 /\ x2 < 2 * r.x2
    /\ 2 * r.y1 < y2 /\ y2 < 2 * r.y2

InClosure(r, x2, y2) ==
    /\ 2 * r.x1 <= x2 /\ x2 <= 2 * r.x2
    /\ 2 * r.y1 <= y2 /\ y2 <= 2 * r.y2

\* The rasterizer's point-in-polygon test with all_touched=False: the pixel
\* centre decides; a centre exactly on an edge goes by the rasterizer's rule.
Burns(r, x2, y2, edge) ==
    \/ StrictlyInside(r, x2, y2)
    \/ InClosure(r, x2, y2) /\ edge

\* rasterio.mask.mask(f, shapes, crop=False, nodata=.., all_touched=False,
\* filled=True)[0][0]: band 1 of f where a shape burns the pixel, nodata
\* elsewhere; crop=False keeps the dataset's shape.
Mask(band, transform, shapes, nodata, edge) ==
    [band EXCEPT !.v =
        [i \in 0..(band.rows - 1) |->
            [j \in 0..(band.cols - 1) |->
                IF \E k \in 1..Len(shapes) :
                      Burns(shapes[k], CentreX2(transform, j), CentreY2(transform, i), edge)
                THEN band.v[i][j]
                ELSE nodata]]]

-----------------------------------------------------------------------------
(* calc_region(region, Crd_reg, res_desired, GeoRef): its inputs. *)

PixelSizes == {1, 2}

Boxes ==
    { <<n, e, s, w>> : n \in 0..MaxCoord, e \in 0..MaxCoord, s \in 0..1, w \in 0..1 }

RegionBoxes == { c \in Boxes : c[1] >= c[3] /\ c[2] >= c[4] }

Intervals      == { <<0, 2>>, <<2, MaxCoord>>, <<0, MaxCoord>>, <<1, 3>> }
PartIntervals  == { <<0, 2>>, <<2, MaxCoord>> }

Rects     == { Rect(ix[1], ix[2], iy[1], iy[2]) : ix \in Intervals, iy \in Intervals }
PartRects == { Rect(ix[1], ix[2], iy[1], iy[2]) : ix \in PartIntervals, iy \in PartIntervals }
FarRect   == Rect(MaxCoord + 1, MaxCoord + 2, MaxCoord + 1, MaxCoord + 2)

\* The polygon that is exactly the bounding box Crd = <<N, E, S, W>>.
BoxRect(Crd) == Rect(Crd[4], Crd[2], Crd[3], Crd[1])

Polygon(r)        == [geom_type |-> "Polygon", geometry |-> <<r>>]
MultiPolygon(seq) == [geom_type |-> "MultiPolygon", geometry |-> seq]

\* The parts of a geometry, as shapely iterates them.
Parts(g) == g.geometry

Regions(Crd) ==
    { Polygon(r) : r \in Rects \cup {FarRect} }
    \cup (IF Crd[1] > Crd[3] /\ Crd[2] > Crd[4] THEN {Polygon(BoxRect(Crd))} ELSE {})
    \cup { MultiPolygon(<<pr[1], pr[2]>>) : pr \in { q \in PartRects \X PartRects : q[1] # q[2] } }

\* The scope the global GeoRef was computed for.
Crd_global == <<MaxCoord, MaxCoord, 0, 0>>

InitRegion ==
    \* initialization() is not running
    /\ disk = {} /\ meta = <<>> /\ inputs = <<>> /\ pc = "idle" /\ idx = 0
    /\ stdout = <<>> /\ opened = <<>> /\ old = <<>> /\ param = <<>>
    /\ written = <<>> /\ result = <<>>
    \* no raster writer is running
    /\ call = <<>> /\ pcRaster = "idle" /\ outRaster = <<>>
    /\ Crd_reg \in RegionBoxes
    /\ region \in Regions(Crd_reg)
    /\ res_desired \in PixelSizes \X PixelSizes
    /\ GeoRef = calc_geotiff(Crd_global, res_desired)
    /\ edgeRule \in BOOLEAN
    /\ pcRegion = "call"
    /\ A_region = <<>>
    /\ features = <<>>
    /\ profile = <<>>


-----------------------------------------------------------------------------
(* calc_region(): its steps. *)

\* Mutant of GridShape: the two resolutions taken in the other order.
GridShape_swappedRes(Crd, res) ==
    <<IntDiv(Abs(Crd[3] - Crd[1]), res[2]), IntDiv(Abs(Crd[4] - Crd[2]), res[1])>>

\* lines 116-119: M, N
GridShape(Crd, res) ==
    <<IntDiv(Abs(Crd[3] - Crd[1]), res[1]), IntDiv(Abs(Crd[4] - Crd[2]), res[2])>>

\* Mutant of FeaturesOf: only the first part of a MultiPolygon is kept.
FeaturesOf_firstPart(reg) == <<Parts(reg)[1]>>

\* lines 123-126
FeaturesOf(reg) ==
    IF reg.geom_type = "MultiPolygon"
    THEN [k \in 1..Len(Parts(reg)) |-> Parts(reg)[k]]
    ELSE Parts(reg)

\* Mutant of RegionTransform: a north-up raster hung from the north-west corner.
RegionTransform_northWest(Crd, georef) ==
    from_origin(Crd[4], Crd[1], georef.pixelWidth, -georef.pixelHeight)

\* lines 121, 127-128, 136
RegionTransform(Crd, georef) ==
    LET origin == <<Crd[4], Crd[3]>>
        west   == origin[1]
        south  == origin[2]
    IN from_origin(west, south, georef.pixelWidth, georef.pixelHeight)

\* lines 116-137: the grid of ones, the feature list and the raster profile
BuildProfile ==
    /\ UNCHANGED <<initVars, rasterVars>>
    /\ pcRegion = "call"
    /\ LET shape == GridShape(Crd_reg, res_desired)
           M == shape[1]
           N == shape[2]
       IN /\ A_region' = Ones(M, N)
          /\ features' = FeaturesOf(region)
          /\ profile' = [driver |-> "GTiff", height |-> M, width |-> N, count |-> 1,
                         dtype |-> "float64", crs |-> "EPSG:4326",
                         transform |-> RegionTransform(Crd_reg, GeoRef)]
    /\ pcRegion' = "profiled"
    /\ UNCHANGED <<region, Crd_reg, res_desired, GeoRef, edgeRule>>

\* GDAL creates no dataset with a side of zero pixels.
CanCreate(width, height) == width >= 1 /\ height >= 1

\* lines 139-141: memfile.open(**profile) and f.write(A_region, 1)
OpenDataset ==
    /\ UNCHANGED <<initVars, rasterVars>>
    /\ pcRegion = "profiled"
    /\ pcRegion' = IF CanCreate(profile.width, profile.height) THEN "written" ELSE "raised"
    /\ UNCHANGED <<region, Crd_reg, res_desired, GeoRef, edgeRule, A_region, features, profile>>

\* lines 142-145: mask.mask(...), A_region = out_image[0], return
MaskAndReturn ==
    /\ UNCHANGED <<initVars, rasterVars>>
    /\ pcRegion = "written"
    /\ A_region' = Mask(A_region, profile.transform, features, 0, edgeRule)
    /\ pcRegion' = "returned"
    /\ UNCHANGED <<region, Crd_reg, res_desired, GeoRef, edgeRule, features, profile>>

NextRegion ==
    \/ BuildProfile
    \/ OpenDataset
    \/ MaskAndReturn

-----------------------------------------------------------------------------
(* array2raster() and array_to_raster(): their inputs. *)

Arrays ==
    UNION { { [rows |-> r, cols |-> c, v |-> f] :
                f \in [0..(r - 1) -> [0..(c - 1) -> {0, 1}]] } :
            r \in 1..MaxRows, c \in 1..2 }

\* Source rasters of array_to_raster, one of them rotated.
SourceRasters(array) ==
    { [gt |-> <<0, xs, rot, 8, rot, ys>>,
       RasterXSize |-> array.cols, RasterYSize |-> array.rows,
       projection |-> "wkt_of_source"] :
         xs \in {1, 2}, ys \in {-1, 2}, rot \in {0, 1} }

Calls ==
    { [fn |-> "array2raster", newRasterfn |-> "out.tif", rasterOrigin |-> <<ox, oy>>,
       pixelWidth |-> pw, pixelHeight |-> ph, array |-> arr] :
         ox \in {0}, oy \in {0, 8}, pw \in {1, 2}, ph \in {-1, 1}, arr \in Arrays }
    \cup
    UNION { { [fn |-> "array_to_raster", array |-> arr, destination_file |-> "out.tif",
               input_raster_file |-> src] : src \in SourceRasters(arr) } : arr \in Arrays }

InitRaster ==
    \* initialization() is not running
    /\ disk = {} /\ meta = <<>> /\ inputs = <<>> /\ pc = "idle" /\ idx = 0
    /\ stdout = <<>> /\ opened = <<>> /\ old = <<>> /\ param = <<>>
    /\ written = <<>> /\ result = <<>>
    \* calc_region() is not running
    /\ Crd_reg = <<>> /\ region = <<>> /\ res_desired = <<>> /\ GeoRef = <<>>
    /\ edgeRule = FALSE /\ pcRegion = "idle"
    /\ A_region = <<>> /\ features = <<>> /\ profile = <<>>
    /\ call \in Calls
    /\ pcRaster = "call"
    /\ outRaster = <<>>


-----------------------------------------------------------------------------
(* array2raster() and array_to_raster(): their steps. *)

\* driver.Create(..), SetGeoTransform(..), SetProjection(..)
Dataset(xsize, ysize, dtype, options, geotransform, projection) ==
    [RasterXSize |-> xsize, RasterYSize |-> ysize, dtype |-> dtype,
     options |-> options, geotransform |-> geotransform,
     projection |-> projection, band |-> <<>>]

\* array2raster lines 166-176
Array2RasterCreate ==
    /\ UNCHANGED <<initVars, regionVars>>
    /\ pcRaster = "call"
    /\ call.fn = "array2raster"
    /\ LET cols    == call.array.cols
           rows    == call.array.rows
           originX == call.rasterOrigin[1]
           originY == call.rasterOrigin[2]
       IN outRaster' = Dataset(cols, rows, "Float64", <<"COMPRESS=PACKBITS">>,
                               <<originX, call.pixelWidth, 0, originY, 0, call.pixelHeight>>,
                               "EPSG:4326")
    /\ pcRaster' = "created"
    /\ UNCHANGED call

\* Mutant of Array2RasterBand: the array is written as it is.
Array2RasterBand_unflipped(array) == array

\* array2raster line 178: the array the band receives
Array2RasterBand(array) == Flipud(array)

\* array2raster lines 177-180
Array2RasterWrite ==
    /\ UNCHANGED <<initVars, regionVars>>
    /\ pcRaster = "created"
    /\ call.fn = "array2raster"
    /\ outRaster' = [outRaster EXCEPT !.band = Array2RasterBand(call.array)]
    /\ pcRaster' = "flushed"
    /\ UNCHANGED call

\* array_to_raster lines 11-25
ArrayToRasterCreate ==
    /\ UNCHANGED <<initVars, regionVars>>
    /\ pcRaster = "call"
    /\ call.fn = "array_to_raster"
    /\ LET source_raster == call.input_raster_file
           upper_left_x  == source_raster.gt[1]
           x_size        == source_raster.gt[2]
           upper_left_y  == source_raster.gt[4]
           y_size        == source_raster.gt[6]
           x_pixels      == source_raster.RasterXSize
           y_pixels      == source_raster.RasterYSize
           x_min         == upper_left_x
           y_max         == upper_left_y
       IN outRaster' = Dataset(x_pixels, y_pixels, "Float32", <<>>,
                               <<x_min, x_size, 0, y_max, 0, y_size>>,
                               source_raster.projection)
    /\ pcRaster' = "created"
    /\ UNCHANGED call

\* array_to_raster line 26: the array the band receives
ArrayToRasterBand(array) == array

\* array_to_raster lines 26-27
ArrayToRasterWrite ==
    /\ UNCHANGED <<initVars, regionVars>>
    /\ pcRaster = "created"
    /\ call.fn = "array_to_raster"
    /\ outRaster' = [outRaster EXCEPT !.band = ArrayToRasterBand(call.array)]
    /\ pcRaster' = "flushed"
    /\ UNCHANGED call

NextRaster ==
    \/ Array2RasterCreate
    \/ Array2RasterWrite
    \/ ArrayToRasterCreate
    \/ ArrayToRasterWrite

-----------------------------------------------------------------------------
(* The specifications. *)

SpecInit == InitInit /\ [][NextInit]_vars

SpecRegion == InitRegion /\ [][NextRegion]_vars

SpecRaster == InitRaster /\ [][NextRaster]_vars

-----------------------------------------------------------------------------
(* Properties of initialization(), checked under SpecInit. *)

Terminated == pc \in {"exited", "returned"}

\* A path names a regular file on disk / ends in the four characters ".tif".
OnDisk(p)  == p \in disk
IsTifName(p) ==
    /\ Len(p) >= 4
    /\ p[Len(p) - 3] = "." /\ p[Len(p) - 2] = "t"
    /\ p[Len(p) - 1] = "i" /\ p[Len(p)] = "f"

ValidFile(p) == OnDisk(p) /\ IsTifName(p)
AllValid     == \A k \in 1..Len(inputs) : ValidFile(inputs[k])

\* File k's bounding box or signed pixel size differs from the first file's.
DiffersFromFirst(k) ==
    LET m == meta[inputs[k]]
        f == meta[inputs[1]]
    IN \/ m.gt[4] # f.gt[4]                                           \* north
       \/ m.gt[1] + m.gt[2] * m.RasterXSize
            # f.gt[1] + f.gt[2] * f.RasterXSize                       \* east
       \/ m.gt[4] + m.gt[6] * m.RasterYSize
            # f.gt[4] + f.gt[6] * f.RasterYSize                       \* south
       \/ m.gt[1] # f.gt[1]                                           \* west
       \/ m.gt[2] # f.gt[2]                                           \* x_size
       \/ m.gt[6] # f.gt[6]                                           \* y_size

SomeMismatch ==
    \E k \in 2..Len(inputs) :
        ValidFile(inputs[1]) /\ ValidFile(inputs[k]) /\ DiffersFromFirst(k)

MismatchMsg == <<"Not the same scope / resolution!">>
Printed(msg) == \E k \in 1..Len(stdout) : stdout[k] = msg

\* C1: after initialization() has accepted a non-empty list of rasters that
\* share bounding box and pixel size, the stored GeoRef has
\* pixelHeight = -|y_size| and pixelWidth = |x_size|.
C1_GeoRefFollowsPixelSizes ==
    pc = "returned" =>
        LET m == meta[inputs[1]]
        IN /\ param.GeoRef.pixelHeight = -Abs(m.gt[6])
           /\ param.GeoRef.pixelWidth = Abs(m.gt[2])

\* C2: a list of rasters in which a file after the first differs from the
\* first in a bounding box component or a signed pixel size ends in the
\* mismatch report and sys.exit, with nothing returned and the input-stats
\* step never reached; a list of rasters that all match the first prints no
\* mismatch report and returns.
C2_MismatchReportedAndFatal ==
    /\ SomeMismatch => pc \notin {"stats", "returned"} /\ result = <<>>
    /\ (Terminated /\ Len(inputs) > 0 /\ AllValid) =>
         IF SomeMismatch
         THEN /\ pc = "exited"
              /\ stdout = <<MismatchMsg>>
              /\ result = <<>>
              /\ written = <<>>
         ELSE /\ pc = "returned"
              /\ ~Printed(MismatchMsg)
    /\ Printed(MismatchMsg) => SomeMismatch

C2_Witness ==
    /\ pc = "exited"
    /\ Len(inputs) = 3
    /\ AllValid
    /\ ~DiffersFromFirst(2)
    /\ DiffersFromFirst(3)
    /\ BoxOf(meta[inputs[3]]) = BoxOf(meta[inputs[1]])
    /\ stdout = <<MismatchMsg>>

\* C7: a run that ends in a validation failure has created no file and
\* returned nothing; the input-stats CSV is created only after every input
\* has passed the file checks and the scope/resolution check.
C7_NoOutputOnValidationFailure ==
    /\ pc = "exited" => written = <<>> /\ result = <<>> /\ Len(stdout) = 1
    /\ written # <<>> =>
         /\ Len(inputs) > 0
         /\ AllValid
         /\ ~SomeMismatch
         /\ Len(opened) = Len(inputs)
         /\ pc = "returned"
    /\ result # <<>> => pc = "returned" /\ stdout = <<>>

C7_Witness ==
    /\ pc = "exited"
    /\ Len(inputs) = 2
    /\ stdout = <<MismatchMsg>>
    /\ input_stats \notin disk
    /\ Len(opened) = 2

\* C8: calc_geotiff maps Crd_all = [north, east, south, west] to
\* RasterOrigin = [west, north] and RasterOrigin_alt = [west, south]; in
\* initialization() west and north are the dataset's upper-left corner.
C8_RasterOrigins ==
    /\ calc_geotiff(<<10, 10, 0, 0>>, <<1, 1>>).RasterOrigin = <<0, 10>>
    /\ \A c \in Boxes :
         /\ calc_geotiff(c, <<1, 1>>).RasterOrigin = <<c[4], c[1]>>
         /\ calc_geotiff(c, <<1, 1>>).RasterOrigin_alt = <<c[4], c[3]>>
    /\ Len(opened) > 0 /\ pc # "exited" =>
         LET m == meta[opened[Len(opened)]]
         IN /\ param.GeoRef.RasterOrigin = <<param.Crd_all[4], param.Crd_all[1]>>
            /\ param.GeoRef.RasterOrigin_alt = <<param.Crd_all[4], param.Crd_all[3]>>
            /\ param.GeoRef.RasterOrigin = <<m.gt[1], m.gt[4]>>
            /\ param.GeoRef.RasterOrigin_alt =
                 <<m.gt[1], m.gt[4] + m.gt[6] * m.RasterYSize>>

C8_Witness ==
    /\ pc = "returned"
    /\ param.GeoRef.RasterOrigin = <<0, 8>>
    /\ param.GeoRef.RasterOrigin_alt = <<0, 4>>

\* The first position of the list whose file fails a file check (0 if none).
FirstBad ==
    IF AllValid THEN 0
    ELSE CHOOSE k \in 1..Len(inputs) :
            /\ ~ValidFile(inputs[k])
            /\ \A j \in 1..(k - 1) : ValidFile(inputs[j])

\* C10: input errors are classified in a fixed order: the empty list first;
\* otherwise the first file in list order that fails a check decides, a
\* missing path is reported as missing whatever its suffix, an existing path
\* not ending in lower-case ".tif" is reported as not a raster; and no
\* dataset is opened until every file has passed both checks.
C10_ErrorClassification ==
    /\ (Terminated /\ Len(inputs) = 0) =>
         stdout = << <<"No input file given!">> >> /\ pc = "exited"
    /\ (Terminated /\ FirstBad # 0) =>
         /\ pc = "exited"
         /\ stdout = << IF OnDisk(inputs[FirstBad])
                        THEN <<"File is not raster: ", inputs[FirstBad]>>
                        ELSE <<"File does not exist: ", inputs[FirstBad]>> >>
    /\ opened # <<>> => Len(inputs) > 0 /\ AllValid
    /\ (Len(inputs) = 0 \/ ~AllValid) => pc \notin {"scan", "stats", "returned"}

C10_Witness ==
    /\ pc = "exited"
    /\ Len(inputs) = 3
    /\ inputs[1] = a_tif
    /\ inputs[2] = e_txt
    /\ inputs[3] = c_TIF
    /\ stdout = << <<"File does not exist: ", e_txt>> >>

C10_WitnessUpperCase ==
    /\ pc = "exited"
    /\ inputs = <<b_tif, c_TIF, d_tif>>
    /\ stdout = << <<"File is not raster: ", c_TIF>> >>

-----------------------------------------------------------------------------
(* Properties of calc_region(), checked under SpecRegion. *)

North == Crd_reg[1]
East  == Crd_reg[2]
South == Crd_reg[3]
West  == Crd_reg[4]
Height == res_desired[1]
Width  == res_desired[2]

Profiled == pcRegion \in {"profiled", "written", "raised", "returned"}

\* k = floor(extent / size), stated without division
IsFloorOf(k, extent, size) == k >= 0 /\ k * size <= extent /\ extent < (k + 1) * size

\* Twice the centre of pixel (i, j) in the raster's own georeference.
PixelX2(j) == 2 * profile.transform.c + (2 * j + 1) * profile.transform.a
PixelY2(i) == 2 * profile.transform.f + (2 * i + 1) * profile.transform.e

PartsOfRegion == { region.geometry[k] : k \in 1..Len(region.geometry) }

CentreInside(i, j)  == \E r \in PartsOfRegion : StrictlyInside(r, PixelX2(j), PixelY2(i))
CentreOutside(i, j) == \A r \in PartsOfRegion : ~InClosure(r, PixelX2(j), PixelY2(i))

Pixels == { <<i, j>> : i \in 0..(A_region.rows - 1), j \in 0..(A_region.cols - 1) }

\* The polygon and the bounding box have no point in common.
DisjointFromBox(r) ==
    \/ r.x2 < West \/ East < r.x1
    \/ r.y2 < South \/ North < r.y1

\* C3: in the grid calc_region returns, a pixel is 1 when its centre lies
\* inside a polygon of the region (any part of a MultiPolygon) and 0 when it
\* lies inside none; a polygon that is exactly the bounding box gives all 1s
\* and a polygon disjoint from the bounding box gives all 0s.
C3_MaskIsCentreContainment ==
    pcRegion = "returned" =>
        /\ \A px \in Pixels :
             /\ A_region.v[px[1]][px[2]] \in {0, 1}
             /\ CentreInside(px[1], px[2])  => A_region.v[px[1]][px[2]] = 1
             /\ CentreOutside(px[1], px[2]) => A_region.v[px[1]][px[2]] = 0
        /\ region = Polygon(BoxRect(Crd_reg)) =>
             \A px \in Pixels : A_region.v[px[1]][px[2]] = 1
        /\ (\A r \in PartsOfRegion : DisjointFromBox(r)) =>
             \A px \in Pixels : A_region.v[px[1]][px[2]] = 0

\* A MultiPolygon whose second part alone covers some pixel, and some pixel
\* covered by no part.
C3_Witness ==
    /\ pcRegion = "returned"
    /\ region.geom_type = "MultiPolygon"
    /\ \E px \in Pixels :
         /\ ~InClosure(region.geometry[1], PixelX2(px[2]), PixelY2(px[1]))
         /\ StrictlyInside(region.geometry[2], PixelX2(px[2]), PixelY2(px[1]))
         /\ A_region.v[px[1]][px[2]] = 1
    /\ \E px \in Pixels : A_region.v[px[1]][px[2]] = 0

\* A polygon away from the box: a grid of zeros.
C3_WitnessDisjoint ==
    /\ pcRegion = "returned"
    /\ \A r \in PartsOfRegion : DisjointFromBox(r)
    /\ A_region.rows >= 2 /\ A_region.cols >= 2
    /\ \A px \in Pixels : A_region.v[px[1]][px[2]] = 0

\* A polygon that is the box, the box no whole number of pixels high.
C3_WitnessCovering ==
    /\ pcRegion = "returned"
    /\ region = Polygon(BoxRect(Crd_reg))
    /\ (North - South) % Height # 0
    /\ A_region.rows >= 2 /\ A_region.cols >= 2

\* C4 as stated: the local raster's origin is (west, north) of the region
\* bounding box and its rows run southward from there.
C4_AnchoredNorthWest ==
    Profiled =>
        /\ profile.transform.c = West
        /\ profile.transform.f = North
        /\ profile.transform.e = GeoRef.pixelHeight

\* C4 as amended: the local raster's origin is (west, south) of the region
\* bounding box, row 0 is the southernmost row and the rows run northward in
\* steps of |pixelHeight|, the columns eastward in steps of pixelWidth; the
\* grid lies inside the box, and when the box height is no whole multiple of
\* the pixel height the strip left uncovered is the northern one.
C4_AnchoredSouthWest ==
    Profiled =>
        /\ profile.transform.c = West
        /\ profile.transform.f = South
        /\ profile.transform.a = GeoRef.pixelWidth
        /\ profile.transform.e = -GeoRef.pixelHeight
        /\ profile.transform.e > 0
        /\ profile.transform.b = 0 /\ profile.transform.d = 0
        /\ \A i \in 0..(profile.height - 1) :
             /\ South + i * Abs(GeoRef.pixelHeight) >= South
             /\ South + (i + 1) * Abs(GeoRef.pixelHeight) <= North
             /\ PixelY2(i) = 2 * South + (2 * i + 1) * Abs(GeoRef.pixelHeight)
        /\ (North - South) % Abs(GeoRef.pixelHeight) # 0 =>
             South + profile.height * Abs(GeoRef.pixelHeight) < North

\* A box of two and a half rows, and a polygon over its southern row only:
\* row 0 of the grid is the row of 1s, the last row is all 0.
C4_Witness ==
    /\ pcRegion = "returned"
    /\ (North - South) % Height # 0
    /\ A_region.rows = 2
    /\ region.geom_type = "Polygon"
    /\ region.geometry[1].y1 <= South
    /\ region.geometry[1].y2 = South + Height
    /\ \E j \in 0..(A_region.cols - 1) : A_region.v[0][j] = 1
    /\ \A j \in 0..(A_region.cols - 1) : A_region.v[1][j] = 0

\* C5: the grid has floor(|north - south| / height) rows and
\* floor(|east - west| / width) columns, from the moment it is built to the
\* moment it is returned: masking does not change the shape.
C5_GridShape ==
    /\ GridShape(<<10, 5, 5, 0>>, <<1, 1>>) = <<5, 5>>
    /\ Profiled =>
         /\ IsFloorOf(A_region.rows, Abs(North - South), Height)
         /\ IsFloorOf(A_region.cols, Abs(East - West), Width)
         /\ DOMAIN A_region.v = 0..(A_region.rows - 1)
         /\ \A i \in DOMAIN A_region.v : DOMAIN A_region.v[i] = 0..(A_region.cols - 1)
         /\ profile.height = A_region.rows
         /\ profile.width = A_region.cols

C5_Witness ==
    /\ pcRegion = "returned"
    /\ Height # Width
    /\ (North - South) % Height # 0
    /\ A_region.rows # A_region.cols
    /\ A_region.rows >= 1 /\ A_region.cols >= 2

\* C6: a region bounding box smaller than one pixel in either dimension makes
\* calc_region return the grid with zero rows or zero columns, without an
\* exception.
C6_ZeroSizedGridReturned ==
    (/\ pcRegion \in {"raised", "returned"}
     /\ North > South /\ East > West
     /\ (North - South < Height \/ East - West < Width)) =>
        /\ pcRegion = "returned"
        /\ A_region.rows = 0 \/ A_region.cols = 0

-----------------------------------------------------------------------------
(* Properties of the raster writers, checked under SpecRaster. *)

\* C9: array2raster writes row (rows - 1 - i) of its array as row i of the
\* band, columns in place, under the geotransform
\* (originX, pixelWidth, 0, originY, 0, pixelHeight); array_to_raster writes
\* its array as it is.
C9_Array2RasterFlipsRows ==
    /\ (pcRaster \in {"created", "flushed"} /\ call.fn = "array2raster") =>
         outRaster.geotransform =
            <<call.rasterOrigin[1], call.pixelWidth, 0,
              call.rasterOrigin[2], 0, call.pixelHeight>>
    /\ (pcRaster = "flushed" /\ call.fn = "array2raster") =>
         /\ outRaster.band.rows = call.array.rows
         /\ outRaster.band.cols = call.array.cols
         /\ outRaster.RasterYSize = call.array.rows
         /\ outRaster.RasterXSize = call.array.cols
         /\ \A i \in 0..(call.array.rows - 1) : \A j \in 0..(call.array.cols - 1) :
              outRaster.band.v[i][j] = call.array.v[call.array.rows - 1 - i][j]
    /\ (pcRaster = "flushed" /\ call.fn = "array_to_raster") =>
         /\ outRaster.band.rows = call.array.rows
         /\ outRaster.band.cols = call.array.cols
         /\ \A i \in 0..(call.array.rows - 1) : \A j \in 0..(call.array.cols - 1) :
              outRaster.band.v[i][j] = call.array.v[i][j]

\* An array whose first and last rows differ, written by array2raster.
C9_Witness ==
    /\ pcRaster = "flushed"
    /\ call.fn = "array2raster"
    /\ call.array.rows = 3
    /\ call.array.cols = 2
    /\ call.array.v[0] # call.array.v[2]
    /\ call.array.v[0][0] # call.array.v[0][1]
    /\ outRaster.band.v[0] = call.array.v[2]
    /\ outRaster.band # call.array

====
